---- MODULE Spec2Model ----
(***************************************************************************)
(* Casualty estimation engine of citynuker: the zone cascade of            *)
(* calculateCasualties (ring-density and grid-integration strategies),     *)
(* the population grid integration of calculateCasualtiesWithRealData,     *)
(* and the population-grid fetch chain (apiCache, OSM feed, synthetic      *)
(* fallback) behind estimatePopulationDensity.                             *)
(*                                                                         *)
(* Numbers.  The source computes in IEEE doubles.  Here every quantity is  *)
(* an exact rational kept as an integer numerator over a fixed             *)
(* denominator: Math.PI is PI_NUM / PI_DEN, fatality rates and injury      *)
(* fractions are per-mille, urbanDensityFactor is in hundredths (UF_DEN).  *)
(* Math.round(x) is floor(x + 1/2); the products with a table fraction     *)
(* are rounded as IEEE doubles round them (RoundMul).  Radii are whole     *)
(* kilometres expressed in metres; grid geometry is planar, in metres,     *)
(* and the haversine distance is the Euclidean distance (compared          *)
(* squared).  Time is in seconds.                                          *)
(***************************************************************************)
EXTENDS Integers, Sequences, FiniteSets, TLC

VARIABLES
    blastEffects,     \* argument of calculateCasualties: the ten effect radii
    populationData,   \* argument of calculateCasualties: PopulationData
    blastCenter,      \* optional argument of calculateCasualties
    casualtyData,     \* value returned by calculateCasualties, or NoResult
    cascade,          \* history: the cascade steps of the last calculateCasualties call
    again,            \* a second calculateCasualties call: its arguments and result, or NoResult
    apiCache,         \* the module-level Map: cache key -> {data, timestamp}, or no entry
    now,              \* Date.now(), in seconds
    calls,            \* the pipeline calls: position and locals of each
    display           \* the last number handed to formatCasualties and its text, or NoResult

vars == <<blastEffects, populationData, blastCenter, casualtyData, cascade, again,
          apiCache, now, calls, display>>

(***************************************************************************)
(* Bounds of the model.                                                    *)
(***************************************************************************)
MaxRadiusKm == 2
MaxDensity == 2
MaxCell == 2

(***************************************************************************)
(* Number representation.                                                  *)
(***************************************************************************)
PI_NUM == 355
PI_DEN == 113
UF_DEN == 100
M_PER_KM == 1000

\* An optional value is the empty sequence (undefined) or a one-element sequence.
NoGrid == <<>>
NoCenter == <<>>
NoResult == <<>>
Some(v) == <<v>>

Max(a, b) == IF a >= b THEN a ELSE b
Abs(a) == IF a >= 0 THEN a ELSE 0 - a

\* Math.round(n / d) for d > 0: the nearest integer, halves towards +infinity.
Round(n, d) == (2 * n + d) \div (2 * d)

RECURSIVE Pow2(_)
Pow2(n) == IF n <= 0 THEN 1 ELSE 2 * Pow2(n - 1)

\* floor(log2(n)) for n >= 1
RECURSIVE Log2Floor(_)
Log2Floor(n) == IF n < 2 THEN 0 ELSE 1 + Log2Floor(n \div 2)

(***************************************************************************)
(* Math.round(s * f) in IEEE doubles, for an integer s and a table         *)
(* fraction f = m / 1000.  The double nearest to f is f + d * 2^-(53 + z), *)
(* where z is the number of leading zero bits of f and d its               *)
(* representation error in units of the last place; FloatErr(m) is         *)
(* 125 * d.  The double product differs from the exact one only when s * f *)
(* is a tie k + 1/2: the product then falls below the tie, and rounds to   *)
(* k, exactly when d < 0 and s * |d| exceeds half a unit in the last place *)
(* of k + 1/2, that is 2^(E + z) with E = floor(log2(k + 1/2)).  s is      *)
(* split as 1000 * q + r, so that s * m is never formed.                   *)
(***************************************************************************)
FloatErr(m) ==
    CASE m = 1 -> 12 [] m = 10 -> 15 [] m = 50 -> 50 [] m = 100 -> 50
      [] m = 150 -> -25 [] m = 200 -> 50 [] m = 300 -> -25 [] m = 400 -> 50
      [] m = 600 -> -25 [] m = 700 -> -50 [] m = 800 -> 50 [] m = 900 -> 25
      [] m = 980 -> -20 [] OTHER -> 0

FloatZeros(m) ==
    CASE m = 1 -> 9 [] m = 10 -> 6 [] m = 50 -> 4 [] m = 100 -> 3
      [] m = 150 -> 2 [] m = 200 -> 2 [] m = 300 -> 1 [] m = 400 -> 1
      [] OTHER -> 0

RoundMul(s, m) ==
    LET q == s \div 1000
        p == (s % 1000) * m
        k == q * m + (p - 500) \div 1000
        e == FloatErr(m)
        z == FloatZeros(m)
    IN  IF s < 0 \/ p % 1000 # 500 THEN q * m + Round(p, 1000)
        ELSE IF e >= 0 THEN k + 1
        ELSE IF k = 0 THEN (IF 4 * s * (0 - e) > 125 * Pow2(z) THEN 0 ELSE 1)
        ELSE IF s * (0 - e) > 125 * Pow2(Log2Floor(2 * k + 1) - 1 + z) THEN k
        ELSE k + 1

RECURSIVE SumSeq(_)
SumSeq(s) == IF s = <<>> THEN 0 ELSE Head(s) + SumSeq(Tail(s))

(***************************************************************************)
(* Static tables.                                                          *)
(***************************************************************************)
FATALITY_RATES ==
    [fireball |-> 1000, psi20 |-> 980, psi5 |-> 500, psi2 |-> 50, psi1 |-> 10,
     thermal3rd |-> 500, thermal2nd |-> 50, thermal1st |-> 1,
     radiation500 |-> 900, radiation100 |-> 100]

Inj(s, m, l) == [severe |-> s, moderate |-> m, light |-> l]

INJURY_DISTRIBUTION ==
    [psi20 |-> Inj(1000, 0, 0), psi5 |-> Inj(700, 200, 100),
     psi2 |-> Inj(200, 500, 300), psi1 |-> Inj(50, 150, 800),
     thermal3rd |-> Inj(1000, 0, 0), thermal2nd |-> Inj(300, 700, 0),
     thermal1st |-> Inj(0, 100, 900),
     radiation500 |-> Inj(1000, 0, 0), radiation100 |-> Inj(400, 600, 0)]

\* calculateArea: km^2, as a multiple of 1/PI_DEN.
calculateArea(radiusMeters) ==
    LET radiusKm == radiusMeters \div M_PER_KM
    IN  PI_NUM * radiusKm * radiusKm

\* Mutant: the inner disc is not subtracted.
calculateRingPopulation_WholeDisc(innerRadius, outerRadius, populationDensity, urbanFactor) ==
    Round(calculateArea(outerRadius) * (populationDensity * urbanFactor), PI_DEN * UF_DEN)

\* calculateRingPopulation: ringArea * (populationDensity * urbanFactor), rounded.
calculateRingPopulation(innerRadius, outerRadius, populationDensity, urbanFactor) ==
    LET outerArea == calculateArea(outerRadius)
        innerArea == calculateArea(innerRadius)
        ringArea == outerArea - innerArea
        effectiveDensity == populationDensity * urbanFactor
    IN  Round(ringArea * effectiveDensity, PI_DEN * UF_DEN)

getZoneDescription(zoneName) ==
    CASE zoneName = "Fireball" -> "Complete vaporization and incineration"
      [] zoneName = "20 psi overpressure" -> "Reinforced concrete buildings destroyed"
      [] zoneName = "5 psi overpressure" -> "Most buildings collapse, widespread fatalities"
      [] zoneName = "500 rem radiation" -> "Lethal radiation dose, death within days"
      [] zoneName = "3rd degree burns" -> "Severe burns requiring specialized treatment"
      [] zoneName = "2 psi overpressure" -> "Residential buildings severely damaged"
      [] zoneName = "100 rem radiation" -> "Radiation sickness, increased cancer risk"
      [] zoneName = "2nd degree burns" -> "Painful burns, risk of infection"
      [] zoneName = "1 psi overpressure" -> "Windows shattered, light injuries"
      [] zoneName = "1st degree burns" -> "Superficial burns similar to sunburn"
      [] OTHER -> "Blast effect zone"

\* Mutant: every zone name matches every marker.
ZoneIncludes_Always(zoneName, marker) == TRUE

\* String.prototype.includes on the ten zone names, for the three markers used.
ZoneIncludes(zoneName, marker) ==
    CASE marker = "psi" -> zoneName \in {"20 psi overpressure", "5 psi overpressure",
                                         "2 psi overpressure", "1 psi overpressure"}
      [] marker = "degree" -> zoneName \in {"3rd degree burns", "2nd degree burns",
                                            "1st degree burns"}
      [] marker = "rem" -> zoneName \in {"500 rem radiation", "100 rem radiation"}
      [] OTHER -> FALSE

(***************************************************************************)
(* Zone list of calculateCasualties.                                       *)
(***************************************************************************)
Zone(n, r, f, i) == [name |-> n, radius |-> r, fatalityRate |-> f, injuries |-> i]

\* Array.prototype.sort with (a, b) => a.radius - b.radius: stable, ascending.
RECURSIVE InsertByRadius(_, _)
InsertByRadius(sorted, z) ==
    IF sorted = <<>> THEN <<z>>
    ELSE IF z.radius < Head(sorted).radius THEN <<z>> \o sorted
    ELSE <<Head(sorted)>> \o InsertByRadius(Tail(sorted), z)

RECURSIVE SortByRadius(_)
SortByRadius(s) ==
    IF s = <<>> THEN <<>>
    ELSE InsertByRadius(SortByRadius(SubSeq(s, 1, Len(s) - 1)), s[Len(s)])

\* fireball is in meters, the others are in km and are converted.
UnsortedZones(be) ==
    << Zone("Fireball", be.fireball, FATALITY_RATES.fireball, INJURY_DISTRIBUTION.psi20),
       Zone("20 psi overpressure", be.psi20 * 1000, FATALITY_RATES.psi20, INJURY_DISTRIBUTION.psi20),
       Zone("5 psi overpressure", be.psi5 * 1000, FATALITY_RATES.psi5, INJURY_DISTRIBUTION.psi5),
       Zone("500 rem radiation", be.rem500 * 1000, FATALITY_RATES.radiation500, INJURY_DISTRIBUTION.radiation500),
       Zone("3rd degree burns", be.thirdDegree * 1000, FATALITY_RATES.thermal3rd, INJURY_DISTRIBUTION.thermal3rd),
       Zone("2 psi overpressure", be.psi2 * 1000, FATALITY_RATES.psi2, INJURY_DISTRIBUTION.psi2),
       Zone("100 rem radiation", be.rem100 * 1000, FATALITY_RATES.radiation100, INJURY_DISTRIBUTION.radiation100),
       Zone("2nd degree burns", be.secondDegree * 1000, FATALITY_RATES.thermal2nd, INJURY_DISTRIBUTION.thermal2nd),
       Zone("1 psi overpressure", be.psi1 * 1000, FATALITY_RATES.psi1, INJURY_DISTRIBUTION.psi1),
       Zone("1st degree burns", be.firstDegree * 1000, FATALITY_RATES.thermal1st, INJURY_DISTRIBUTION.thermal1st) >>

Zones(be) == SortByRadius(UnsortedZones(be))

\* Math.round(survivors * fraction) for each of the three injury fractions.
InjuriesOf(survivors, dist) ==
    [severe |-> RoundMul(survivors, dist.severe),
     moderate |-> RoundMul(survivors, dist.moderate),
     light |-> RoundMul(survivors, dist.light)]

(***************************************************************************)
(* Population grid integration (calculatePopulationInCircle).  A grid is   *)
(* [bounds, resolution, data]; data is a sequence of rows.  Coordinates    *)
(* are planar metres (lat = northing, lng = easting); all positions are    *)
(* handled doubled so that the cell centre (row + 0.5) stays an integer.   *)
(***************************************************************************)
\* Squared distance between two points given in doubled coordinates.
haversineDistance(point1, point2) ==
    (point2.lat - point1.lat) * (point2.lat - point1.lat)
      + (point2.lng - point1.lng) * (point2.lng - point1.lng)

\* distance <= radiusMeters, on the squared doubled distance (a distance is
\* never below zero, so nothing lies within a negative radius).
WithinRadius(distance, radiusMeters) ==
    radiusMeters >= 0 /\ distance <= 4 * radiusMeters * radiusMeters

RECURSIVE SumCells(_, _, _, _, _)
SumCells(center, radiusMeters, populationGrid, k, total) ==
    LET bounds == populationGrid.bounds
        data == populationGrid.data
        latRange == bounds.north - bounds.south
        lngRange == bounds.east - bounds.west
        gridHeight == Len(data)
        gridWidth == IF gridHeight > 0 THEN Len(data[1]) ELSE 0
    IN  IF k >= gridHeight * gridWidth THEN total
        ELSE LET row == k \div gridWidth
                 col == k % gridWidth
                 cellLat == 2 * bounds.south + (2 * row + 1) * (latRange \div gridHeight)
                 cellLng == 2 * bounds.west + (2 * col + 1) * (lngRange \div gridWidth)
                 distance == haversineDistance([lat |-> 2 * center.lat, lng |-> 2 * center.lng],
                                               [lat |-> cellLat, lng |-> cellLng])
             IN  SumCells(center, radiusMeters, populationGrid, k + 1,
                          IF WithinRadius(distance, radiusMeters)
                          THEN total + data[row + 1][col + 1] ELSE total)

calculatePopulationInCircle(center, radiusMeters, populationGrid) ==
    Round(SumCells(center, radiusMeters, populationGrid, 0, 0), 1)

(***************************************************************************)
(* The survivor cascade shared by both strategies.                         *)
(***************************************************************************)
\* Mutant: the fatalities of the inner zones are not subtracted.
SurvivingPopulation_NoCumulative(ringPopulation, cumulativeFatalities) ==
    Max(0, ringPopulation)

\* Mutant: the difference is not clamped at zero.
SurvivingPopulation_NoClamp(ringPopulation, cumulativeFatalities) ==
    ringPopulation - cumulativeFatalities

\* Math.max(0, ringPopulation - cumulativeFatalities)
SurvivingPopulation(ringPopulation, cumulativeFatalities) ==
    Max(0, ringPopulation - cumulativeFatalities)

\* Math.round(survivingPopulation * zone.fatalityRate)
ZoneFatalities(survivingPopulation, fatalityRate) ==
    RoundMul(survivingPopulation, fatalityRate)

CascadeStep(zone, ringPopulation, cumulativeFatalities, survivingPopulation, zoneFatalities) ==
    [radius |-> zone.radius, fatalityRate |-> zone.fatalityRate,
     ringPopulation |-> ringPopulation, cumulativeBefore |-> cumulativeFatalities,
     survivingPopulation |-> survivingPopulation, fatalities |-> zoneFatalities]

(***************************************************************************)
(* calculateCasualtiesWithRealData: every zone of the list yields a        *)
(* result; the ring population is the disc at the zone's radius minus the  *)
(* disc at the previous zone's radius.                                     *)
(***************************************************************************)
RECURSIVE RealDataLoop(_, _, _, _, _)
RealDataLoop(sortedZones, populationGrid, center, i, acc) ==
    IF i > Len(sortedZones) THEN acc
    ELSE LET zone == sortedZones[i]
             innerRadius == IF i > 1 THEN sortedZones[i - 1].radius ELSE 0
             totalPopInZone == calculatePopulationInCircle(center, zone.radius, populationGrid)
             totalPopInInnerZone ==
                 IF innerRadius > 0
                 THEN calculatePopulationInCircle(center, innerRadius, populationGrid)
                 ELSE 0
             ringPopulation == totalPopInZone - totalPopInInnerZone
             survivingPopulation == SurvivingPopulation(ringPopulation, acc.cumulativeFatalities)
             zoneFatalities == ZoneFatalities(survivingPopulation, zone.fatalityRate)
         IN  RealDataLoop(sortedZones, populationGrid, center, i + 1,
                [results |-> Append(acc.results,
                                    [radius |-> zone.radius,
                                     populationAffected |-> ringPopulation,
                                     fatalities |-> zoneFatalities]),
                 steps |-> Append(acc.steps,
                                  CascadeStep(zone, ringPopulation, acc.cumulativeFatalities,
                                              survivingPopulation, zoneFatalities)),
                 cumulativeFatalities |-> acc.cumulativeFatalities + zoneFatalities])

calculateCasualtiesWithRealData(blastZones, populationGrid, center) ==
    RealDataLoop(SortByRadius(blastZones), populationGrid, center, 1,
                 [results |-> <<>>, steps |-> <<>>, cumulativeFatalities |-> 0])

\* Mutant: the comparison is <= instead of ===.
RECURSIVE FindByRadius_AtMost(_, _, _)
FindByRadius_AtMost(realDataResults, radius, i) ==
    IF i > Len(realDataResults) THEN 0
    ELSE IF realDataResults[i].radius <= radius THEN i
    ELSE FindByRadius_AtMost(realDataResults, radius, i + 1)

\* realDataResults.find(r => r.radius === zone.radius): index of the first match, 0 if none.
RECURSIVE FindByRadius(_, _, _)
FindByRadius(realDataResults, radius, i) ==
    IF i > Len(realDataResults) THEN 0
    ELSE IF realDataResults[i].radius = radius THEN i
    ELSE FindByRadius(realDataResults, radius, i + 1)

\* Mutant: the area of the zone's whole disc instead of its ring.
Estimate_WholeDisc(zone, area, populationAffected, fatalities, injuries) ==
    [zone |-> zone.name, radius |-> zone.radius, area |-> calculateArea(zone.radius),
     populationAffected |-> populationAffected, fatalities |-> fatalities,
     injuries |-> injuries, description |-> getZoneDescription(zone.name)]

Estimate(zone, area, populationAffected, fatalities, injuries) ==
    [zone |-> zone.name, radius |-> zone.radius, area |-> area,
     populationAffected |-> populationAffected, fatalities |-> fatalities,
     injuries |-> injuries, description |-> getZoneDescription(zone.name)]

\* zones.forEach of the grid branch.
RECURSIVE GridEstimates(_, _, _, _)
GridEstimates(zones, realDataResults, index, estimates) ==
    IF index > Len(zones) THEN estimates
    ELSE LET zone == zones[index]
             found == FindByRadius(realDataResults, zone.radius, 1)
         IN  IF found = 0
             THEN GridEstimates(zones, realDataResults, index + 1, estimates)
             ELSE LET realData == realDataResults[found]
                      survivors == realData.populationAffected - realData.fatalities
                      injuries == InjuriesOf(survivors, zone.injuries)
                      area == calculateArea(zone.radius)
                                - calculateArea(IF index > 1 THEN zones[index - 1].radius ELSE 0)
                  IN  GridEstimates(zones, realDataResults, index + 1,
                         Append(estimates,
                                Estimate(zone, area, realData.populationAffected,
                                         realData.fatalities, injuries)))

(***************************************************************************)
(* Ring-density strategy: zones.forEach of the else branch.                *)
(***************************************************************************)
\* Mutant: only a zone without radius is skipped.
SkipZone_ZeroOnly(radius, previousRadius) == radius = 0

\* if (!zone.radius || zone.radius <= previousRadius) return;
SkipZone(radius, previousRadius) == radius = 0 \/ radius <= previousRadius

RECURSIVE RingLoop(_, _, _, _, _)
RingLoop(zones, populationDensity, urbanDensityFactor, i, acc) ==
    IF i > Len(zones) THEN acc
    ELSE LET zone == zones[i]
         IN  IF SkipZone(zone.radius, acc.previousRadius)
             THEN RingLoop(zones, populationDensity, urbanDensityFactor, i + 1, acc)
             ELSE LET ringPopulation ==
                          calculateRingPopulation(acc.previousRadius, zone.radius,
                                                  populationDensity, urbanDensityFactor)
                      survivingPopulation ==
                          SurvivingPopulation(ringPopulation, acc.cumulativeFatalities)
                      zoneFatalities == ZoneFatalities(survivingPopulation, zone.fatalityRate)
                      survivors == survivingPopulation - zoneFatalities
                      injuries == InjuriesOf(survivors, zone.injuries)
                      area == calculateArea(zone.radius) - calculateArea(acc.previousRadius)
                  IN  RingLoop(zones, populationDensity, urbanDensityFactor, i + 1,
                         [estimates |-> Append(acc.estimates,
                                               Estimate(zone, area, ringPopulation,
                                                        zoneFatalities, injuries)),
                          steps |-> Append(acc.steps,
                                           CascadeStep(zone, ringPopulation,
                                                       acc.cumulativeFatalities,
                                                       survivingPopulation, zoneFatalities)),
                          cumulativeFatalities |-> acc.cumulativeFatalities + zoneFatalities,
                          previousRadius |-> zone.radius])

RingDensity(zones, populationDensity, urbanDensityFactor) ==
    RingLoop(zones, populationDensity, urbanDensityFactor, 1,
             [estimates |-> <<>>, steps |-> <<>>, cumulativeFatalities |-> 0,
              previousRadius |-> 0])

(***************************************************************************)
(* calculateCasualties.                                                    *)
(***************************************************************************)
\* if (populationGrid && blastCenter)
UseGrid(populationGrid, center) == populationGrid # NoGrid /\ center # NoCenter

\* Mutant: the flag looks at the grid only.
UsingRealData_GridOnly(populationGrid, center) == populationGrid # NoGrid

\* usingRealData: populationGrid && blastCenter ? true : false
\* Mutant: the flag follows the module-level cache instead of the arguments.
UsingRealData_FromCache(populationGrid, center) == \E k \in DOMAIN apiCache : apiCache[k] # <<>>

UsingRealData(populationGrid, center) == populationGrid # NoGrid /\ center # NoCenter

GridStrategy(zones, populationGrid, center) ==
    LET blastZonesForRealData ==
            [i \in 1..Len(zones) |-> [radius |-> zones[i].radius,
                                      fatalityRate |-> zones[i].fatalityRate]]
        real == calculateCasualtiesWithRealData(blastZonesForRealData, populationGrid, center)
    IN  [estimates |-> GridEstimates(zones, real.results, 1, <<>>), steps |-> real.steps]

EstFatalities(e) == e.fatalities
\* Mutant: only the severe injuries are added up.
EstInjuries_SevereOnly(e) == e.injuries.severe

EstInjuries(e) == e.injuries.severe + e.injuries.moderate + e.injuries.light
EstPopulation(e) == e.populationAffected
EstSevereTrauma(e) == IF ZoneIncludes(e.zone, "psi") THEN e.injuries.severe ELSE 0
EstBurns(e) == IF ZoneIncludes(e.zone, "degree") THEN e.injuries.severe + e.injuries.moderate ELSE 0
EstRadiation(e) == IF ZoneIncludes(e.zone, "rem") THEN e.injuries.severe + e.injuries.moderate ELSE 0

\* The run of one call: the strategy taken, its cascade steps and the CasualtyData returned.
calculateCasualties(be, popData, center) ==
    LET populationDensity == popData.populationDensity
        urbanDensityFactor == popData.urbanDensityFactor
        populationGrid == popData.populationGrid
        zones == Zones(be)
        grid == UseGrid(populationGrid, center)
        run == IF grid THEN GridStrategy(zones, populationGrid[1], center[1])
               ELSE RingDensity(zones, populationDensity, urbanDensityFactor)
        estimates == run.estimates
        totalFatalities == SumSeq([i \in 1..Len(estimates) |-> EstFatalities(estimates[i])])
        totalInjuries == SumSeq([i \in 1..Len(estimates) |-> EstInjuries(estimates[i])])
        totalPopulationAffected == SumSeq([i \in 1..Len(estimates) |-> EstPopulation(estimates[i])])
        medicalBurden ==
            [severeTrauma |-> SumSeq([i \in 1..Len(estimates) |-> EstSevereTrauma(estimates[i])]),
             burns |-> SumSeq([i \in 1..Len(estimates) |-> EstBurns(estimates[i])]),
             radiationSickness |-> SumSeq([i \in 1..Len(estimates) |-> EstRadiation(estimates[i])]),
             combinedInjuries |-> RoundMul(totalInjuries, 100)]
    IN  [strategy |-> IF grid THEN "grid" ELSE "ring",
         steps |-> run.steps,
         data |-> [estimates |-> estimates,
                   totals |-> [populationAffected |-> totalPopulationAffected,
                               fatalities |-> totalFatalities,
                               injuries |-> totalInjuries],
                   medicalBurden |-> medicalBurden,
                   usingRealData |-> UsingRealData(populationGrid, center)]]

(***************************************************************************)
(* Inputs of calculateCasualties explored by the model.                    *)
(***************************************************************************)
NumZones == 10
UrbanFactors == {50, 100}

\* blastEffects from the radii (in km) of the ten zones, in the order of the zone table.
EffectsFrom(f) ==
    [fireball |-> f[1] * 1000, psi20 |-> f[2], psi5 |-> f[3], rem500 |-> f[4],
     thirdDegree |-> f[5], psi2 |-> f[6], rem100 |-> f[7], secondDegree |-> f[8],
     psi1 |-> f[9], firstDegree |-> f[10]]

\* Two zones of the table take any radius of 0..MaxRadiusKm km, the others are 0.
PairEffects ==
    { EffectsFrom([k \in 1..NumZones |-> IF k = i THEN a ELSE IF k = j THEN b ELSE 0]) :
        i \in 1..NumZones, j \in 1..NumZones, a \in 0..MaxRadiusKm, b \in 0..MaxRadiusKm }

\* The three most lethal zones (Fireball, 20 psi, 500 rem) take any radius, the others are 0.
TripleEffects ==
    { EffectsFrom([k \in 1..NumZones |-> IF k = 1 THEN a ELSE IF k = 2 THEN b
                                          ELSE IF k = 4 THEN c ELSE 0]) :
        a \in 0..MaxRadiusKm, b \in 0..MaxRadiusKm, c \in 0..MaxRadiusKm }

SparseEffects == PairEffects \cup TripleEffects

\* All ten zones have distinct radii 1..10 km: rotations of the table order and of its reverse.
FullEffects ==
    { EffectsFrom([k \in 1..NumZones |-> ((k - 1 + rot) % NumZones) + 1]) : rot \in 0..(NumZones - 1) }
      \cup
    { EffectsFrom([k \in 1..NumZones |-> NumZones - ((k - 1 + rot) % NumZones)]) : rot \in 0..(NumZones - 1) }

PopData(density, uf, grid) ==
    [totalPopulation |-> 0, populationDensity |-> density,
     urbanDensityFactor |-> uf, populationGrid |-> grid]

\* A 1 x 2 grid of 2 km cells whose centres lie at (0, 1000) and (0, 3000).
SmallGrid(a, b) ==
    [bounds |-> [north |-> 1000, south |-> -1000, east |-> 4000, west |-> 0],
     resolution |-> 2000,
     data |-> << <<a, b>> >>]

SmallGrids == { SmallGrid(a, b) : a \in 0..MaxCell, b \in 0..MaxCell }

\* One on a cell centre, one on the grid's west edge.
Centers == { Some([lat |-> 0, lng |-> 1000]), Some([lat |-> 0, lng |-> 0]) }

\* A 1 x 10 grid of 1 km cells at 1, 2, ..., 10 km from the point (0, 0), populated
\* so that the disc of every whole-km radius holds the ring-density population of
\* that disc.
MatchedGrid(density, uf) ==
    [bounds |-> [north |-> 500, south |-> -500, east |-> 10500, west |-> 500],
     resolution |-> 1000,
     data |-> << [c \in 1..NumZones |->
                     calculateRingPopulation(0, c * 1000, density, uf)
                       - calculateRingPopulation(0, (c - 1) * 1000, density, uf)] >>]

Origin == Some([lat |-> 0, lng |-> 0])

\* The worked example: fireball 1000 m, 5 psi 3 km, density 1000 /km^2, urban factor 1.0.
ExampleEffects == EffectsFrom([k \in 1..NumZones |-> IF k = 1 THEN 1 ELSE IF k = 3 THEN 3 ELSE 0])

(***************************************************************************)
(* The population-grid fetch chain.  Coordinates are planar metres on the  *)
(* equator (lat = northing, lng = easting; cos(lat) = 1), so that the      *)
(* bounding box lat +- radiusKm / 111 degrees is lat +- radiusKm km.       *)
(***************************************************************************)
CACHE_DURATION == 300
FETCH_TIMEOUT == 10
maxRadiusKm == 20

\* The 100 x 100 grid of the building feed and the 50 x 50 synthetic grid are
\* represented by grids of these sizes.
OsmGridSize == 4
SyntheticGridSize == 2

\* 0.0001 degree, the step of toFixed(4), in metres.
KEY_STEP == 10
\* One degree, in metres, for the fractional part of a coordinate.
M_PER_DEGREE == 100000

Min(a, b) == IF a <= b THEN a ELSE b

\* floor(sqrt(n)) for n >= 0, searched in lo..hi.
RECURSIVE ISqrtIn(_, _, _)
ISqrtIn(n, lo, hi) ==
    IF lo >= hi THEN lo
    ELSE LET mid == (lo + hi + 1) \div 2
         IN  IF mid * mid <= n THEN ISqrtIn(n, mid, hi) ELSE ISqrtIn(n, lo, mid - 1)

ISqrt(n) == ISqrtIn(n, 0, 46340)

\* Number.prototype.toFixed(4), in units of 0.0001 degree.
ToFixed4(x) == Round(x, KEY_STEP)

\* `${lat.toFixed(4)}-${lng.toFixed(4)}-${radiusKm}`
cacheKey(lat, lng, radiusKm) == <<ToFixed4(lat), ToFixed4(lng), radiusKm>>

NoEntry == <<>>
Null == <<>>

Bounds(lat, lng, radiusKm) ==
    [north |-> lat + radiusKm * M_PER_KM, south |-> lat - radiusKm * M_PER_KM,
     east |-> lng + radiusKm * M_PER_KM, west |-> lng - radiusKm * M_PER_KM]

ZeroGrid(gridSize) == [r \in 1..gridSize |-> [c \in 1..gridSize |-> 0]]

\* parseInt of the building:levels tags the feed sends; NaN is Null.
ParseInt(text) ==
    CASE text = "3" -> Some(3)
      [] text = "0" -> Some(0)
      [] text = "-2" -> Some(0 - 2)
      [] OTHER -> Null

\* parseInt(element.tags?.['building:levels']) || 1
Levels(tag) ==
    LET n == IF tag = <<>> THEN Null ELSE ParseInt(tag[1])
    IN  IF n = Null \/ n[1] = 0 THEN 1 ELSE n[1]

\* element.tags?.building || 'yes', then the occupancy table.
OccupantsPerLevel(tag) ==
    LET buildingType == IF tag = <<>> THEN "yes" ELSE tag[1]
    IN  CASE buildingType \in {"apartments", "residential"} -> 6
          [] buildingType = "house" -> 4
          [] buildingType \in {"commercial", "office"} -> 20
          [] buildingType \in {"school", "university"} -> 50
          [] buildingType = "hospital" -> 30
          [] OTHER -> 4

\* The body of data.elements.forEach for one element.
AddElement(grid, element, bounds, gridSize) ==
    IF element.center = <<>> THEN grid
    ELSE LET buildingLat == element.center[1].lat
             buildingLng == element.center[1].lon
             row == ((buildingLat - bounds.south) * gridSize) \div (bounds.north - bounds.south)
             col == ((buildingLng - bounds.west) * gridSize) \div (bounds.east - bounds.west)
         IN  IF row >= 0 /\ row < gridSize /\ col >= 0 /\ col < gridSize
             THEN [grid EXCEPT ![row + 1][col + 1] =
                      @ + OccupantsPerLevel(element.building) * Levels(element.levels)]
             ELSE grid

RECURSIVE AddElements(_, _, _, _, _)
AddElements(grid, elements, i, bounds, gridSize) ==
    IF i > Len(elements) THEN grid
    ELSE AddElements(AddElement(grid, elements[i], bounds, gridSize), elements, i + 1,
                     bounds, gridSize)

\* The PopulationGrid fetchOSMPopulationData builds from a parsed payload.
OsmGrid(lat, lng, radiusKm, elements) ==
    LET bounds == Bounds(lat, lng, radiusKm)
        gridSize == OsmGridSize
    IN  [bounds |-> bounds,
         resolution |-> (radiusKm * 1000) \div gridSize,
         data |-> AddElements(ZeroGrid(gridSize), elements, 1, bounds, gridSize)]

\* (Math.random() - 0.5) * 0.3 lies in [-0.15, 0.15); in units of 1/10000.
NoiseLevels == <<-1500, 1499>>
Seeds == 0..(Len(NoiseLevels) - 1)

\* The value Math.random() gives for a cell: one of the levels, by seed and cell.
Noise(seed, row, col, gridSize) == NoiseLevels[((seed + row * gridSize + col) % Len(NoiseLevels)) + 1]

\* One cell of the synthetic grid.  normalizedDistance is kept in thousandths,
\* truncated; densities are in units of 1/10000.
SyntheticCell(row, col, radiusKm, gridSize, noise) ==
    LET distance4 == (2 * row - gridSize) * (2 * row - gridSize)
                       + (2 * col - gridSize) * (2 * col - gridSize)
        normalizedDistance == ISqrt((distance4 * 1000000) \div (2 * gridSize * gridSize))
        baseDensity == Max(0, 10000 - 7 * normalizedDistance)
        density == Max(0, baseDensity + noise)
    IN  Round(density * (2 * radiusKm) * (2 * radiusKm), gridSize * gridSize)

\* The PopulationGrid fetchPopulationDensityAPI generates.
fetchPopulationDensityAPI(lat, lng, radiusKm, seed) ==
    LET gridSize == SyntheticGridSize
    IN  Some([bounds |-> Bounds(lat, lng, radiusKm),
              resolution |-> (radiusKm * 2000) \div gridSize,
              data |-> [r \in 1..gridSize |-> [c \in 1..gridSize |->
                          SyntheticCell(r - 1, c - 1, radiusKm, gridSize,
                                        Noise(seed, r - 1, c - 1, gridSize))]]])

\* Mutant: the synthetic generator runs whatever the building feed returned.
SyntheticRuns_Always(osmData) == TRUE

\* fetchRealPopulationData reaches the call of fetchPopulationDensityAPI: the
\* building feed's result was falsy, so `if (osmData) return osmData` fell through.
SyntheticRuns(osmData) == osmData = Null

\* The tail of fetchRealPopulationData after the building feed has answered.
fetchRealPopulationData(osmData, lat, lng, radiusKm, seed) ==
    IF osmData # Null THEN osmData
    ELSE LET densityData == fetchPopulationDensityAPI(lat, lng, radiusKm, seed)
         IN  IF densityData # Null THEN densityData ELSE Null

\* cityName.toLowerCase() on the names the model passes.
ToLowerCase(cityName) ==
    CASE cityName = "Tokyo" -> "tokyo"
      [] cityName = "Greater Sydney" -> "greater sydney"
      [] OTHER -> cityName

\* The first entry of defaultDensities whose key the city name includes, else 3000.
BaseDensity(cityName) ==
    LET cityKey == ToLowerCase(cityName)
    IN  CASE cityKey = "tokyo" -> 6350
          [] cityKey = "greater sydney" -> 415
          [] OTHER -> 3000

\* Math.exp(-4 * d) in tenths, for a distance d given in metres of arc.
ExpTenths(d) ==
    CASE d <= 1282 -> 10 [] d <= 4063 -> 9 [] d <= 7192 -> 8 [] d <= 10769 -> 7
      [] d <= 14945 -> 6 [] d <= 19962 -> 5 [] d <= 26245 -> 4 [] d <= 34657 -> 3
      [] d <= 47428 -> 2 [] d <= 74893 -> 1 [] OTHER -> 0

\* The PopulationData estimatePopulationDensity returns once the grid is known.
\* centerFactor is in hundredths, timeFactor in tenths; on the equator the
\* sine terms of combinedVariation vanish.
PopulationDataOf(lat, lng, cityName, hour, populationGrid) ==
    LET baseDensity == BaseDensity(cityName)
        latDecimal == Abs(lat) % M_PER_DEGREE
        lngDecimal == Abs(lng) % M_PER_DEGREE
        distanceFromCenter == ISqrt(latDecimal * latDecimal + lngDecimal * lngDecimal)
        centerFactor == 100 + 5 * ExpTenths(distanceFromCenter)
        isBusinessHours == hour >= 9 /\ hour <= 17
        timeFactor == IF isBusinessHours THEN 11 ELSE 9
        variationFactor == centerFactor * timeFactor
        density == Round(Max(500 * 1000, Min(50000 * 1000, baseDensity * variationFactor)), 1000)
        urbanFactor == 50 + (40 * centerFactor) \div 100
    IN  [totalPopulation |-> 0, populationDensity |-> density,
         urbanDensityFactor |-> urbanFactor, populationGrid |-> populationGrid]

(***************************************************************************)
(* The pipeline estimatePopulationDensity -> calculateCasualties.  Each    *)
(* call runs once, and the calls are numbered in the order they start.     *)
(* The awaits are the interleaving points.  A call at "osmDone",           *)
(* "gridDone" or "estimated" is resuming from an await on an already       *)
(* settled promise: such continuations run before any timer, network       *)
(* event or new call.                                                      *)
(***************************************************************************)
NumCalls == 2
MaxElements == 1
MaxTime == 310

Calls == 1..NumCalls

\* new Date().getHours(): the clock starts at 08:59:50.
DAY_START == 32390
getHours(t) == ((DAY_START + t) \div 3600) % 24

Place(lng, cityName) == [lat |-> 0, lng |-> lng, cityName |-> cityName]

\* Two places 4 m apart that share a cache key, and one 25 km east.
Places == { Place(0, "Tokyo"), Place(4, ""), Place(25000, "Greater Sydney") }

Keys == { cacheKey(pl.lat, pl.lng, maxRadiusKm) : pl \in Places }

Element(center, building, levels) == [center |-> center, building |-> building, levels |-> levels]

\* Elements of the feed's payload: buildings at the point (0, 0) and a way without centre.
ElementKinds ==
    { Element(Some([lat |-> 0, lon |-> 0]), Some("apartments"), Some("3")),
      Element(Some([lat |-> 0, lon |-> 0]), Some("office"), Some("-2")),
      Element(Some([lat |-> 0, lon |-> 0]), Some("house"), <<>>),
      Element(<<>>, <<>>, Some("0")) }

RECURSIVE SeqsUpTo(_, _)
SeqsUpTo(S, n) ==
    IF n = 0 THEN { <<>> }
    ELSE LET shorter == SeqsUpTo(S, n - 1)
         IN  shorter \cup { Append(s, e) : s \in shorter, e \in S }

\* Parsed payloads: with an elements array, or without one.
Payloads ==
    { [elements |-> Some(s)] : s \in SeqsUpTo(ElementKinds, MaxElements) }
      \cup { [elements |-> Null] }

\* The blast effects the pipeline's caller passes on.
PipelineEffects ==
    EffectsFrom([k \in 1..NumZones |-> IF k = 1 THEN 1 ELSE IF k = 3 THEN 3
                                       ELSE IF k = 9 THEN 8 ELSE IF k = 10 THEN 15 ELSE 0])

IdleCall ==
    [pc |-> "idle", lat |-> 0, lng |-> 0, cityName |-> "", started |-> 0,
     cached |-> NoEntry, timer |-> <<>>, requests |-> 0, feed |-> "none", seed |-> 0,
     osmData |-> Null, synthetic |-> FALSE, populationGrid |-> Null, popData |-> <<>>,
     casualtyData |-> NoResult]

FetchIdle ==
    /\ apiCache = [k \in Keys |-> NoEntry]
    /\ now = 0
    /\ calls = [p \in Calls |-> IdleCall]

CasIdle ==
    /\ blastEffects = PipelineEffects
    /\ populationData = PopData(3000, 100, NoGrid)
    /\ blastCenter = NoCenter
    /\ casualtyData = NoResult
    /\ cascade = NoResult
    /\ again = NoResult
    /\ display = NoResult

FetchInit == FetchIdle /\ CasIdle

casVars == <<blastEffects, populationData, blastCenter, casualtyData, cascade, again, display>>

\* Some call is resuming from an await on a settled promise.
Resuming == \E p \in Calls : calls[p].pc \in {"osmDone", "gridDone", "estimated"}

\* Mutant: no catch block, a failure leaves fetchOSMPopulationData as a rejection.
OsmReturns_NoCatch(p, feed, osmData) ==
    calls' = [calls EXCEPT ![p].pc = IF osmData = Null THEN "rejected" ELSE "osmDone",
                           ![p].feed = feed, ![p].timer = <<>>, ![p].osmData = osmData]

\* fetchOSMPopulationData returns: the catch block turns every failure into null.
OsmReturns(p, feed, osmData) ==
    calls' = [calls EXCEPT ![p].pc = "osmDone", ![p].feed = feed, ![p].timer = <<>>,
                           ![p].osmData = osmData]

\* Mutant: an entry is served whatever its age.
CacheHit_AnyAge(cached, t) == cached # NoEntry

\* Mutant: the cache is never used.
CacheHit_Never(cached, t) == FALSE

\* cached && Date.now() - cached.timestamp < CACHE_DURATION
CacheHit(cached, t) == cached # NoEntry /\ t - cached[1].timestamp < CACHE_DURATION

\* estimatePopulationDensity is called: fetchRealPopulationData, then
\* fetchOSMPopulationData up to its first await (cache lookup, fetch issued).
StartCall(p, place) ==
    LET key == cacheKey(place.lat, place.lng, maxRadiusKm)
        cached == apiCache[key]
        call == [calls[p] EXCEPT !.lat = place.lat, !.lng = place.lng,
                                 !.cityName = place.cityName, !.started = now,
                                 !.cached = cached]
    IN  /\ ~Resuming
        /\ calls[p].pc = "idle"
        /\ \A q \in 1..(p - 1) : calls[q].pc # "idle"
        /\ IF CacheHit(cached, now)
           THEN calls' = [calls EXCEPT ![p] = [call EXCEPT !.pc = "osmDone", !.feed = "hit",
                                                          !.osmData = Some(cached[1].data)]]
           ELSE calls' = [calls EXCEPT ![p] = [call EXCEPT !.pc = "fetching",
                                                          !.timer = Some(now),
                                                          !.requests = @ + 1]]
        /\ UNCHANGED <<apiCache, now, casVars>>

\* await fetch(...) rejects: network error.
FetchRejects(p) ==
    /\ ~Resuming
    /\ calls[p].pc = "fetching"
    /\ OsmReturns(p, "networkError", Null)
    /\ UNCHANGED <<apiCache, now, casVars>>

\* The 10 s timer fires while the fetch is pending: controller.abort() rejects it.
TimeoutAbort(p) ==
    /\ ~Resuming
    /\ calls[p].pc = "fetching"
    /\ calls[p].timer # <<>>
    /\ now >= calls[p].timer[1] + FETCH_TIMEOUT
    /\ OsmReturns(p, "timeout", Null)
    /\ UNCHANGED <<apiCache, now, casVars>>

\* await fetch(...) resolves with the response headers: clearTimeout, then the
\* status check; a good response goes on to await response.json().
ResponseArrives(p, ok) ==
    /\ ~Resuming
    /\ calls[p].pc = "fetching"
    /\ IF ok THEN calls' = [calls EXCEPT ![p].pc = "reading", ![p].timer = <<>>]
             ELSE OsmReturns(p, "httpError", Null)
    /\ UNCHANGED <<apiCache, now, casVars>>

\* await response.json() rejects: the body is not JSON.
JsonRejects(p) ==
    /\ ~Resuming
    /\ calls[p].pc = "reading"
    /\ OsmReturns(p, "malformed", Null)
    /\ UNCHANGED <<apiCache, now, casVars>>

\* await response.json() resolves: the grid is built and cached, or
\* data.elements.forEach throws on a payload without elements.
JsonParsed(p, payload) ==
    LET call == calls[p]
        key == cacheKey(call.lat, call.lng, maxRadiusKm)
        result == OsmGrid(call.lat, call.lng, maxRadiusKm, payload.elements[1])
    IN  /\ ~Resuming
        /\ call.pc = "reading"
        /\ IF payload.elements = Null
           THEN /\ OsmReturns(p, "noElements", Null)
                /\ UNCHANGED apiCache
           ELSE /\ apiCache' = [apiCache EXCEPT ![key] = Some([data |-> result, timestamp |-> now])]
                /\ OsmReturns(p, "ok", Some(result))
        /\ UNCHANGED <<now, casVars>>

\* fetchRealPopulationData resumes after await fetchOSMPopulationData and returns.
FetchRealReturns(p, seed) ==
    LET call == calls[p]
    IN  /\ call.pc = "osmDone"
        /\ calls' = [calls EXCEPT ![p].pc = "gridDone",
                                  ![p].synthetic = SyntheticRuns(call.osmData),
                                  ![p].seed = IF call.osmData = Null THEN seed ELSE 0,
                                  ![p].populationGrid =
                                      fetchRealPopulationData(call.osmData, call.lat, call.lng,
                                                              maxRadiusKm, seed)]
        /\ (call.osmData # Null => seed = 0)
        /\ UNCHANGED <<apiCache, now, casVars>>

\* estimatePopulationDensity resumes after await fetchRealPopulationData and returns.
EstimateReturns(p) ==
    LET call == calls[p]
        hour == getHours(now)
    IN  /\ call.pc = "gridDone"
        /\ calls' = [calls EXCEPT ![p].pc = "estimated",
                                  ![p].popData =
                                      Some(PopulationDataOf(call.lat, call.lng, call.cityName,
                                                            hour, call.populationGrid))]
        /\ UNCHANGED <<apiCache, now, casVars>>

\* The caller passes the PopulationData and the blast centre to calculateCasualties.
RunCasualties(p) ==
    LET call == calls[p]
        center == Some([lat |-> call.lat, lng |-> call.lng])
    IN  /\ call.pc = "estimated"
        /\ calls' = [calls EXCEPT ![p].pc = "done",
                                  ![p].casualtyData =
                                      Some(calculateCasualties(PipelineEffects, call.popData[1],
                                                               center).data)]
        /\ UNCHANGED <<apiCache, now, casVars>>

\* Instants at which something changes: a pending timer's deadline, the time
\* limit of a call still reading its body, the last valid and the first expired
\* instant of a cache entry.
Deadlines == { calls[p].timer[1] + FETCH_TIMEOUT : p \in { q \in Calls : calls[q].timer # <<>> } }

Instants ==
    Deadlines
      \cup { calls[p].started + FETCH_TIMEOUT : p \in { q \in Calls : calls[q].pc = "reading" } }
      \cup UNION { { apiCache[k][1].timestamp + CACHE_DURATION - 1,
                     apiCache[k][1].timestamp + CACHE_DURATION } :
                   k \in { j \in Keys : apiCache[j] # NoEntry } }

\* Time passes, never beyond the deadline of a pending timer.
Tick ==
    /\ ~Resuming
    /\ \E t \in Instants :
          /\ t > now
          /\ t <= MaxTime
          /\ \A d \in Deadlines : t <= d
          /\ now' = t
    /\ UNCHANGED <<apiCache, calls, casVars>>

FetchNext ==
    \/ \E p \in Calls, place \in Places : StartCall(p, place)
    \/ \E p \in Calls : FetchRejects(p)
    \/ \E p \in Calls : TimeoutAbort(p)
    \/ \E p \in Calls, ok \in BOOLEAN : ResponseArrives(p, ok)
    \/ \E p \in Calls : JsonRejects(p)
    \/ \E p \in Calls, payload \in Payloads : JsonParsed(p, payload)
    \/ \E p \in Calls, seed \in Seeds : FetchRealReturns(p, seed)
    \/ \E p \in Calls : EstimateReturns(p)
    \/ \E p \in Calls : RunCasualties(p)
    \/ Tick

SpecFetch == FetchInit /\ [][FetchNext]_vars

\* One call of estimatePopulationDensity followed to its end: what a single
\* caller sees of a slow upstream.
SoloNext ==
    \/ \E place \in Places : StartCall(1, place)
    \/ FetchRejects(1)
    \/ TimeoutAbort(1)
    \/ \E ok \in BOOLEAN : ResponseArrives(1, ok)
    \/ JsonRejects(1)
    \/ \E payload \in Payloads : JsonParsed(1, payload)
    \/ \E seed \in Seeds : FetchRealReturns(1, seed)
    \/ EstimateReturns(1)
    \/ RunCasualties(1)
    \/ Tick

\* What the program does on its own, whatever the upstream does: the clock
\* advances, a pending timer fires, and the continuation of a settled promise
\* runs. RunCasualties(1) is enabled exactly when the call is at "estimated"
\* and leaves that position for good, so its weak fairness is the last
\* conjunct. Nothing is assumed of the network: the fetch and the body read
\* may never settle.
FetchFairness ==
    /\ WF_vars(Tick)
    /\ WF_vars(TimeoutAbort(1))
    /\ WF_vars(\E seed \in Seeds : FetchRealReturns(1, seed))
    /\ WF_vars(EstimateReturns(1))
    /\ []<>(calls[1].pc # "estimated")

SpecFetchLive == FetchInit /\ [][SoloNext]_vars /\ FetchFairness

(***************************************************************************)
(* calculateCasualties on its own: one call on each input.                 *)
(***************************************************************************)
\* No grid: the ring-density strategy over every density and urban factor.
InitRing ==
    /\ blastEffects \in SparseEffects
    /\ \E d \in 1..MaxDensity, uf \in UrbanFactors : populationData = PopData(d, uf, NoGrid)
    /\ blastCenter = NoCenter

\* Only one of grid and centre is present.
InitHalf ==
    /\ blastEffects \in SparseEffects
    /\ \/ populationData = PopData(1, 100, NoGrid) /\ blastCenter = Origin
       \/ populationData = PopData(1, 100, Some(SmallGrid(1, 1))) /\ blastCenter = NoCenter

\* Grid and centre present.
InitGrid ==
    /\ blastEffects \in SparseEffects
    /\ \E g \in SmallGrids : populationData = PopData(1, 100, Some(g))
    /\ blastCenter \in Centers

\* All ten zones distinct, on the grid matched to the density, with and without centre.
InitFull ==
    /\ blastEffects \in FullEffects
    /\ \E d \in 1..MaxDensity, uf \in UrbanFactors :
          populationData = PopData(d, uf, Some(MatchedGrid(d, uf)))
    /\ blastCenter \in {NoCenter, Origin}

InitExample ==
    /\ blastEffects = ExampleEffects
    /\ populationData = PopData(1000, 100, NoGrid)
    /\ blastCenter = NoCenter

CasInit ==
    /\ InitRing \/ InitHalf \/ InitGrid \/ InitFull \/ InitExample
    /\ casualtyData = NoResult
    /\ cascade = NoResult
    /\ again = NoResult
    /\ display = NoResult
    /\ FetchIdle

\* The keys apiCache holds an entry for.
CachedKeys == { k \in DOMAIN apiCache : apiCache[k] # NoEntry }

\* One call of calculateCasualties on the current inputs.
CalculateCasualties ==
    /\ casualtyData = NoResult
    /\ \E run \in { calculateCasualties(blastEffects, populationData, blastCenter) } :
          /\ casualtyData' = Some(run.data)
          /\ cascade' = Some([strategy |-> run.strategy, steps |-> run.steps,
                               cached |-> CachedKeys])
    /\ UNCHANGED <<blastEffects, populationData, blastCenter, again, apiCache, now, calls, display>>

CasNext == CalculateCasualties

SpecCas == CasInit /\ [][CasNext]_vars

\* Blast effects with a malformed zone: one zone of the table has a negative
\* radius, another any radius of 0..MaxRadiusKm km, the others are 0.
MalformedEffects ==
    { EffectsFrom([k \in 1..NumZones |-> IF k = i THEN a ELSE IF k = j THEN b ELSE 0]) :
        i \in 1..NumZones, j \in 1..NumZones, a \in (0 - MaxRadiusKm)..(0 - 1), b \in 0..MaxRadiusKm }

\* calculateCasualties is handed a malformed zone, without and with a grid.
MalformedInit ==
    /\ blastEffects \in MalformedEffects
    /\ \/ populationData = PopData(1, 100, NoGrid) /\ blastCenter = NoCenter
       \/ populationData = PopData(1, 100, Some(SmallGrid(1, 1))) /\ blastCenter = Origin
    /\ casualtyData = NoResult
    /\ cascade = NoResult
    /\ again = NoResult
    /\ display = NoResult
    /\ FetchIdle

SpecMalformed == MalformedInit /\ [][CasNext]_vars

\* calculateCasualties is called on the current arguments: the first time the
\* result is kept as casualtyData, the second time as the repeated call's.
CalculateRepeatedly ==
    /\ again = NoResult
    /\ \E run \in { calculateCasualties(blastEffects, populationData, blastCenter) } :
          IF casualtyData = NoResult
          THEN /\ casualtyData' = Some(run.data)
               /\ cascade' = Some([strategy |-> run.strategy, steps |-> run.steps,
                                    cached |-> CachedKeys])
               /\ UNCHANGED again
          ELSE /\ again' = Some([blastEffects |-> blastEffects, appended |-> <<>>,
                                  data |-> run.data, cached |-> CachedKeys])
               /\ UNCHANGED <<casualtyData, cascade>>
    /\ UNCHANGED <<blastEffects, populationData, blastCenter, apiCache, now, calls, display>>

\* Arguments of the repeated call: the ring-density and the grid strategy.
RepeatInit ==
    /\ blastEffects \in {ExampleEffects, PipelineEffects}
    /\ \E d \in 1..MaxDensity : populationData \in {PopData(d, 100, NoGrid),
                                                     PopData(d, 100, Some(SmallGrid(1, 1)))}
    /\ blastCenter \in {NoCenter, Origin}
    /\ casualtyData = NoResult
    /\ cascade = NoResult
    /\ again = NoResult
    /\ display = NoResult
    /\ FetchIdle

\* Two calls of calculateCasualties while a call of the fetch pipeline, which
\* writes the module-level apiCache, runs before, between or after them.
RepeatNext == CalculateRepeatedly \/ SoloNext

SpecRepeat == RepeatInit /\ [][RepeatNext]_vars

\* The blast effects be with the radius of zone k of the table set to km kilometres.
WithZone(be, k, km) ==
    EffectsFrom([j \in 1..NumZones |->
                    IF j = k THEN km ELSE UnsortedZones(be)[j].radius \div M_PER_KM])

\* The largest radius among the zones of be.
MaxRadiusOf(be) == Zones(be)[NumZones].radius

\* calculateCasualties is called again with one more zone: a zone of the table
\* that had radius 0 now has a radius larger than every other zone's.
CalculateAppended ==
    /\ casualtyData # NoResult
    /\ again = NoResult
    /\ \E k \in 1..NumZones, km \in 1..(MaxRadiusKm + 1) :
          /\ UnsortedZones(blastEffects)[k].radius = 0
          /\ km * M_PER_KM > MaxRadiusOf(blastEffects)
          /\ \E be \in { WithZone(blastEffects, k, km) } :
                \E run \in { calculateCasualties(be, populationData, blastCenter) } :
                   again' = Some([blastEffects |-> be,
                                  appended |-> <<UnsortedZones(be)[k].name>>,
                                  data |-> run.data, cached |-> CachedKeys])
    /\ UNCHANGED <<blastEffects, populationData, blastCenter, casualtyData, cascade,
                   apiCache, now, calls, display>>

\* Zone lists that leave room for one more zone, for a fixed density or grid.
AppendInit ==
    /\ blastEffects \in TripleEffects
    /\ \/ /\ \E d \in 1..MaxDensity : populationData = PopData(d, 100, NoGrid)
          /\ blastCenter = NoCenter
       \/ /\ \E g \in SmallGrids : populationData = PopData(1, 100, Some(g))
          /\ blastCenter \in Centers
    /\ casualtyData = NoResult
    /\ cascade = NoResult
    /\ again = NoResult
    /\ display = NoResult
    /\ FetchIdle

AppendNext == CalculateCasualties \/ CalculateAppended

SpecAppend == AppendInit /\ [][AppendNext]_vars

(***************************************************************************)
(* formatCasualties: the text shown for a casualty count.                  *)
(***************************************************************************)
MaxMantissa == 2000

\* (r * 2^k) % unit, by k doublings.
RECURSIVE DoubledMod(_, _, _)
DoubledMod(r, k, unit) == IF k = 0 THEN r ELSE DoubledMod((2 * r) % unit, k - 1, unit)

\* The double num / unit is below the exact quotient: the 53-bit significand is
\* num * 2^k / unit, k = 52 - exponent, rounded to nearest, and it was rounded
\* down when the remainder is positive and under unit / 2.  (For unit 1000 and
\* 1000000 the remainder is never exactly unit / 2.)
QuotientRoundedDown(num, unit) ==
    LET remainder == DoubledMod(num % unit, 52 - Log2Floor(num \div unit), unit)
    IN  remainder > 0 /\ 2 * remainder < unit

\* Mutant: the quotient is cut after the first decimal.
toFixed1_Truncated(num, unit) ==
    LET tenths == num \div (unit \div 10)
    IN  ToString(tenths \div 10) \o "." \o ToString(tenths % 10)

\* (num / unit).toFixed(1) for num >= unit: the decimal with one fraction digit
\* nearest to the double num / unit, the larger one when both are as near.
toFixed1(num, unit) ==
    LET step == unit \div 10
        below == num \div step
        rest == num % step
        tenths == IF 2 * rest > step \/ (2 * rest = step /\ ~QuotientRoundedDown(num, unit))
                  THEN below + 1 ELSE below
    IN  ToString(tenths \div 10) \o "." \o ToString(tenths % 10)

\* num.toLocaleString() for a whole number 0 <= num < 1000: its digits, with no
\* group separator.
toLocaleString(num) == ToString(num)

formatCasualties(num) ==
    IF num >= 1000000 THEN toFixed1(num, 1000000) \o "M"
    ELSE IF num >= 1000 THEN toFixed1(num, 1000) \o "K"
    ELSE toLocaleString(num)

\* Casualty counts of every magnitude, the halves between two tenths among them,
\* and the counts just under one million.
FormatInputs ==
    { mantissa * scale : mantissa \in 0..MaxMantissa, scale \in {1, 50, 1000, 50000} }
        \cup { 1000000 - below : below \in {1, 50, 51} }

\* One call of formatCasualties on a casualty count.
FormatCasualties ==
    /\ display = NoResult
    /\ \E num \in FormatInputs :
          display' = Some([num |-> num, text |-> formatCasualties(num)])
    /\ UNCHANGED <<blastEffects, populationData, blastCenter, casualtyData, cascade, again,
                   apiCache, now, calls>>

FormatNext == FormatCasualties

SpecFormat == FetchInit /\ [][FormatNext]_vars

(***************************************************************************)
(* Properties of calculateCasualties.                                      *)
(***************************************************************************)
Done == casualtyData # NoResult
Data == casualtyData[1]
Estimates == Data.estimates
Steps == cascade[1].steps
Strategy == cascade[1].strategy
ZoneList == Zones(blastEffects)
GridPresent == populationData.populationGrid # NoGrid
CenterPresent == blastCenter # NoCenter

\* The zone at index i has radius zero or the radius of a zone sorted before it.
Degenerate(zones, i) ==
    zones[i].radius = 0 \/ (i > 1 /\ zones[i - 1].radius = zones[i].radius)

RECURSIVE KeptFrom(_, _)
KeptFrom(zones, i) ==
    IF i > Len(zones) THEN <<>>
    ELSE (IF Degenerate(zones, i) THEN <<>> ELSE <<zones[i]>>) \o KeptFrom(zones, i + 1)

\* The zone list without its degenerate entries.
KeptZones(zones) == KeptFrom(zones, 1)

\* The estimates the strategy of the current inputs emits for a zone list.
StrategyEstimates(zones) ==
    IF UseGrid(populationData.populationGrid, blastCenter)
    THEN GridStrategy(zones, populationData.populationGrid[1], blastCenter[1]).estimates
    ELSE RingDensity(zones, populationData.populationDensity,
                     populationData.urbanDensityFactor).estimates

EstimatesNamed(name) == { j \in 1..Len(Estimates) : Estimates[j].zone = name }

\* C1: under either strategy a zone of radius zero, or of the radius of a zone
\* sorted before it, produces no estimate, and the estimates emitted are those
\* of the zone list without such entries.
C1_DegenerateZonesSkipped ==
    Done =>
      /\ \A i \in 1..Len(ZoneList) :
            Degenerate(ZoneList, i) => EstimatesNamed(ZoneList[i].name) = {}
      /\ Estimates = StrategyEstimates(KeptZones(ZoneList))

\* C2: on the grid-integration path every cell is counted in at most one estimate:
\* the total population affected is the population of the largest zone's disc.
C2_GridCellsCountedOnce ==
    (Done /\ Strategy = "grid") =>
      Data.totals.populationAffected =
        calculatePopulationInCircle(blastCenter[1], ZoneList[Len(ZoneList)].radius,
                                    populationData.populationGrid[1])

InnerFatalities(i) == SumSeq([j \in 1..(i - 1) |-> Steps[j].fatalities])

\* C3: every zone processed by either strategy has fatalities at most
\* max(0, ringPopulation - fatalities of the zones processed before it), hence at
\* most its ring population; no estimate reports more fatalities than population.
C3_FatalitiesBounded ==
    Done =>
      /\ \A i \in 1..Len(Steps) :
            /\ Steps[i].fatalities <= Max(0, Steps[i].ringPopulation - InnerFatalities(i))
            /\ Steps[i].fatalities <= Steps[i].ringPopulation
      /\ \A j \in 1..Len(Estimates) :
            Estimates[j].fatalities <= Estimates[j].populationAffected

\* A zone with fatalities of its own processed after inner zones with fatalities.
C3_Witness ==
    /\ Done
    /\ \E i \in 1..Len(Steps) :
          /\ InnerFatalities(i) > 0
          /\ Steps[i].fatalities > 0
          /\ Steps[i].fatalities = Max(0, Steps[i].ringPopulation - InnerFatalities(i))

PositiveZones == { i \in 1..Len(ZoneList) : ZoneList[i].radius > 0 }

\* Exactly two zones have a radius, r1 < r2, and the ring-density strategy ran.
TwoRings ==
    /\ Done
    /\ Strategy = "ring"
    /\ Cardinality(PositiveZones) = 2
    /\ ZoneList[NumZones - 1].radius < ZoneList[NumZones].radius

\* C4: for two zones 0 < r1 < r2 under the ring-density strategy the two zones'
\* fatalities together never exceed the population of the whole outer disc.
C4_TwoZoneFatalitiesWithinOuterDisc ==
    TwoRings =>
      /\ Len(Estimates) = 2
      /\ Estimates[1].fatalities + Estimates[2].fatalities
           <= calculateRingPopulation(0, ZoneList[NumZones].radius,
                                      populationData.populationDensity,
                                      populationData.urbanDensityFactor)

\* Two rings, both with fatalities, the inner ones reducing the outer zone's.
C4_Witness ==
    /\ TwoRings
    /\ Estimates[1].fatalities > 0
    /\ Estimates[2].fatalities > 0
    /\ Steps[2].survivingPopulation < Steps[2].ringPopulation

\* C5: every count of every estimate and every total is a non-negative integer.
C5_CountsNonNegative ==
    Done =>
      /\ \A j \in 1..Len(Estimates) :
            /\ Estimates[j].populationAffected \in Nat
            /\ Estimates[j].fatalities \in Nat
            /\ Estimates[j].injuries.severe \in Nat
            /\ Estimates[j].injuries.moderate \in Nat
            /\ Estimates[j].injuries.light \in Nat
      /\ Data.totals.populationAffected \in Nat
      /\ Data.totals.fatalities \in Nat
      /\ Data.totals.injuries \in Nat

\* The grid path met a ring holding fewer people than the inner zones killed.
C5_Witness ==
    /\ Done
    /\ Strategy = "grid"
    /\ \E i \in 1..Len(Steps) :
          /\ Steps[i].ringPopulation > 0
          /\ Steps[i].ringPopulation < Steps[i].cumulativeBefore
    /\ Len(Estimates) > 0

\* C6: the grid-integration path is taken exactly when grid and centre are both
\* present, and usingRealData is true exactly when it was taken.
C6_StrategySelection ==
    Done =>
      /\ (Strategy = "grid") <=> (GridPresent /\ CenterPresent)
      /\ (Strategy = "ring") <=> ~(GridPresent /\ CenterPresent)
      /\ Data.usingRealData <=> (Strategy = "grid")

\* A grid without a centre: the ring-density path, not flagged as real data.
C6_Witness ==
    /\ Done
    /\ GridPresent
    /\ ~CenterPresent
    /\ Strategy = "ring"
    /\ ~Data.usingRealData

\* The building feed of call p was unavailable: network error, timeout, non-2xx
\* status, malformed body or a payload without elements.
FeedUnavailable(p) ==
    calls[p].feed \in {"networkError", "timeout", "httpError", "malformed", "noElements"}

\* C7: in the pipeline estimatePopulationDensity -> calculateCasualties with a
\* blast centre, a call whose building feed was unavailable resolves to a
\* PopulationData and its CasualtyData has usingRealData = false.
C7_UnavailableFeedNotRealData ==
    \A p \in Calls :
        (calls[p].pc = "done" /\ FeedUnavailable(p)) =>
            /\ calls[p].popData # <<>>
            /\ ~calls[p].casualtyData[1].usingRealData

IsExample ==
    /\ Done
    /\ blastEffects = ExampleEffects
    /\ populationData = PopData(1000, 100, NoGrid)
    /\ blastCenter = NoCenter

\* C8 as stated: the outer zone's fatalities are half of its whole ring population.
C8_ExampleAsStated ==
    IsExample =>
      /\ Len(Estimates) = 2
      /\ Estimates[1].populationAffected = 3142
      /\ Estimates[1].fatalities = 3142
      /\ Estimates[2].populationAffected = 25133
      /\ Estimates[2].fatalities = 12567
      /\ Estimates[2].populationAffected - Estimates[2].fatalities = 12566
      /\ Estimates[2].injuries = Inj(8796, 2513, 1257)

\* C8 amended: on the example (zones of radius 1000 m at rate 1.0 and 3000 m at
\* rate 0.5 with injuries 0.7/0.2/0.1, density 1000, urban factor 1.0) zone 1 has
\* population 3142 and fatalities 3142; zone 2 has population 25133, surviving
\* population 25133 - 3142 = 21991, fatalities 10996, survivors 10995 and
\* injuries severe 7696, moderate 2199, light 1100.
C8_ExampleCascade ==
    IsExample =>
      /\ Len(Estimates) = 2
      /\ Estimates[1].radius = 1000
      /\ Estimates[1].populationAffected = 3142
      /\ Estimates[1].fatalities = 3142
      /\ Estimates[1].injuries = Inj(0, 0, 0)
      /\ Estimates[2].radius = 3000
      /\ Estimates[2].populationAffected = 25133
      /\ Steps[2].survivingPopulation = 21991
      /\ Estimates[2].fatalities = 10996
      /\ Steps[2].survivingPopulation - Steps[2].fatalities = 10995
      /\ Estimates[2].injuries = Inj(7696, 2199, 1100)

C8_Witness == IsExample /\ Estimates[2].zone = "5 psi overpressure"

\* The ring-density strategy on the inputs of the current call.
RingRun ==
    RingDensity(ZoneList, populationData.populationDensity, populationData.urbanDensityFactor)

\* The grid path ran on strictly increasing positive radii and on a grid whose
\* population inside each zone's disc is the ring-density population of that disc.
Comparable ==
    /\ Done
    /\ Strategy = "grid"
    /\ ZoneList[1].radius > 0
    /\ \A i \in 1..(Len(ZoneList) - 1) : ZoneList[i].radius < ZoneList[i + 1].radius
    /\ \A i \in 1..Len(ZoneList) :
          calculatePopulationInCircle(blastCenter[1], ZoneList[i].radius,
                                      populationData.populationGrid[1])
            = calculateRingPopulation(0, ZoneList[i].radius,
                                      populationData.populationDensity,
                                      populationData.urbanDensityFactor)

\* C9 as stated: both strategies agree on every zone's populationAffected and
\* fatalities up to a difference of 1.
C9_StrategiesAgreeWithinOne ==
    Comparable =>
      /\ Len(Estimates) = Len(RingRun.estimates)
      /\ \A i \in 1..Len(Estimates) :
            /\ Estimates[i].zone = RingRun.estimates[i].zone
            /\ Abs(Estimates[i].populationAffected - RingRun.estimates[i].populationAffected) <= 1
            /\ Abs(Estimates[i].fatalities - RingRun.estimates[i].fatalities) <= 1

\* C9 amended: both strategies emit the same zones, populationAffected agrees up
\* to 1 per zone, the innermost zone agrees exactly, and a zone's fatalities
\* differ by at most 1 plus the difference between the two strategies'
\* cumulative fatalities of the zones inside it.
C9_StrategiesAgreeUpToDrift ==
    Comparable =>
      /\ Len(Estimates) = Len(RingRun.estimates)
      /\ Estimates[1].populationAffected = RingRun.estimates[1].populationAffected
      /\ Estimates[1].fatalities = RingRun.estimates[1].fatalities
      /\ \A i \in 1..Len(Estimates) :
            /\ Estimates[i].zone = RingRun.estimates[i].zone
            /\ Abs(Estimates[i].populationAffected - RingRun.estimates[i].populationAffected) <= 1
            /\ Abs(Estimates[i].fatalities - RingRun.estimates[i].fatalities)
                 <= 1 + Abs(Steps[i].cumulativeBefore - RingRun.steps[i].cumulativeBefore)

\* A comparable run in which some zone's fatalities differ by two or more.
C9_Witness ==
    /\ Comparable
    /\ \E i \in 1..Len(Estimates) :
          Abs(Estimates[i].fatalities - RingRun.estimates[i].fatalities) >= 2

\* fetchRealPopulationData of call p has just returned a grid.
ReturnedGrid(p) == calls[p].pc = "gridDone" /\ calls[p].populationGrid # Null

\* C10: when fetchRealPopulationData returns a grid, apiCache holds that grid
\* under the call's key (lat and lng to 4 decimals, radiusKm), stamped with the
\* current time unless it was served from the cache, and younger than 5 minutes.
C10_ReturnedGridIsCached ==
    \A p \in Calls :
        ReturnedGrid(p) =>
            LET entry == apiCache[cacheKey(calls[p].lat, calls[p].lng, maxRadiusKm)]
            IN  /\ entry # NoEntry
                /\ entry[1].data = calls[p].populationGrid[1]
                /\ calls[p].feed = "hit" \/ entry[1].timestamp = now
                /\ now - entry[1].timestamp < CACHE_DURATION

\* fetchRealPopulationData of call p has returned.
Returned(p) == calls[p].pc \in {"gridDone", "estimated", "done"}

\* Call p found, when it started, an entry under its key younger than 5 minutes.
FoundFresh(p) ==
    /\ calls[p].pc # "idle"
    /\ calls[p].cached # NoEntry
    /\ calls[p].started - calls[p].cached[1].timestamp < CACHE_DURATION

\* C11: a fetchRealPopulationData call whose key has an apiCache entry younger
\* than 5 minutes issues no network request and returns that entry's grid.
C11_FreshEntryServedWithoutRequest ==
    \A p \in Calls :
        FoundFresh(p) =>
            /\ calls[p].requests = 0
            /\ calls[p].pc \notin {"fetching", "reading"}
            /\ Returned(p) => calls[p].populationGrid = Some(calls[p].cached[1].data)

\* A later call served from an entry written 299 s before it started.
C11_Witness ==
    \E p \in Calls :
        /\ FoundFresh(p)
        /\ Returned(p)
        /\ calls[p].started - calls[p].cached[1].timestamp = CACHE_DURATION - 1

\* Call p has issued its network request and fetchOSMPopulationData has not
\* returned; the abort deadline of the request lies within the modelled time.
AwaitingUpstream(p) ==
    /\ calls[p].pc \in {"fetching", "reading"}
    /\ calls[p].started + FETCH_TIMEOUT <= MaxTime

\* C12: every fetchRealPopulationData call eventually completes (with a grid or
\* null), also when the upstream never responds or stalls after sending the
\* response headers.
C12_EveryCallCompletes == AwaitingUpstream(1) ~> Returned(1)

\* The half of C12 that the abort timer does guarantee: a request whose
\* headers never arrive is given up.
UnansweredRequestGivenUp ==
    (calls[1].pc = "fetching" /\ calls[1].started + FETCH_TIMEOUT <= MaxTime)
        ~> (calls[1].pc # "fetching")

\* A call never waits for the headers longer than the abort delay.
HeadersAwaitedWithinTimeout ==
    \A p \in Calls : calls[p].pc = "fetching" => now - calls[p].started <= FETCH_TIMEOUT

\* A call is still reading the body after the abort delay has passed.
BodyReadOutlivesTimeout ==
    \E p \in Calls : calls[p].pc = "reading" /\ now - calls[p].started > FETCH_TIMEOUT

\* The network request of call p is in flight.
Pending(p) == calls[p].pc \in {"fetching", "reading"}

\* The apiCache key of call p.
KeyOf(p) == cacheKey(calls[p].lat, calls[p].lng, maxRadiusKm)

\* Call q fetched a grid from the upstream and stored it.
Fetched(q) == calls[q].pc \notin {"idle", "fetching", "reading"} /\ calls[q].feed = "ok"

\* C13: when two fetches overlap and the earlier-started one (calls are numbered
\* in start order) completes after the later-started one, the completion of the
\* earlier one leaves the apiCache entry written by the later one as it is.
C13_EarlierResultDiscarded ==
    [][ \A p \in Calls : \A q \in Calls :
            (p < q /\ Pending(p) /\ Fetched(q) /\ ~Pending(p)')
                => apiCache'[KeyOf(q)] = apiCache[KeyOf(q)] ]_vars

\* C14: fetchRealPopulationData asks the building feed first; the synthetic
\* generator runs only after the feed has returned null; a grid from the feed is
\* returned as it is, and null is returned only when both sources gave null.
C14_PrimaryFirstThenSynthetic ==
    \A p \in Calls :
        /\ calls[p].synthetic => (Returned(p) /\ calls[p].osmData = Null)
        /\ (Returned(p) /\ calls[p].osmData # Null)
              => (calls[p].populationGrid = calls[p].osmData /\ ~calls[p].synthetic)
        /\ (Returned(p) /\ calls[p].populationGrid = Null)
              => (calls[p].osmData = Null /\ calls[p].synthetic)

\* One call returned the building feed's grid without running the generator,
\* another ran the generator after the feed had returned null.
C14_Witness ==
    \E p \in Calls : \E q \in Calls :
        /\ Returned(p) /\ calls[p].osmData # Null /\ ~calls[p].synthetic
        /\ Returned(q) /\ calls[q].osmData = Null /\ calls[q].synthetic
        /\ calls[q].populationGrid # Null

\* The outcomes of the external fetch.
FetchOutcomes == {"ok", "networkError", "timeout", "httpError", "malformed", "noElements"}

\* d has the shape of the PopulationData interface.
IsPopulationData(d) ==
    /\ DOMAIN d = {"totalPopulation", "populationDensity", "urbanDensityFactor", "populationGrid"}
    /\ d.totalPopulation = 0
    /\ d.populationDensity \in 500..50000
    /\ d.urbanDensityFactor \in Nat
    /\ d.populationGrid # Null
          => DOMAIN d.populationGrid[1] = {"bounds", "resolution", "data"}

\* After an outcome of the external fetch call p is at a continuation or has
\* resolved to a PopulationData value: it never is in a rejected position.
SettledOrResolved(p) ==
    calls[p].feed \in FetchOutcomes =>
        /\ calls[p].pc \in {"osmDone", "gridDone", "estimated", "done"}
        /\ calls[p].pc \in {"estimated", "done"}
              => (calls[p].popData # <<>> /\ IsPopulationData(calls[p].popData[1]))

\* C15: estimatePopulationDensity never throws or rejects: after every outcome
\* of the external fetch (success, network error, abort, non-2xx status,
\* malformed JSON, payload without elements) the call goes on and resolves to a
\* PopulationData value.
C15_AlwaysResolvesToPopulationData ==
    /\ [] SettledOrResolved(1)
    /\ \A outcome \in FetchOutcomes :
          (calls[1].feed = outcome)
              ~> (calls[1].pc \in {"estimated", "done"} /\ calls[1].popData # <<>>)

\* The call resolved to a PopulationData value after a payload without elements.
C15_Witness ==
    /\ calls[1].feed = "noElements"
    /\ calls[1].pc \in {"estimated", "done"}
    /\ IsPopulationData(calls[1].popData[1])

\* The same safety holds of every call when calls overlap.
AllSettledOrResolved == \A p \in Calls : SettledOrResolved(p)

\* Every outcome of the fetch is followed by a resolved call in some run.
OutcomesResolved(outcome) ==
    \E p \in Calls : calls[p].feed = outcome /\ calls[p].pc = "estimated"

\* The zone list holds a zone with a negative radius.
Malformed == \E i \in 1..Len(ZoneList) : ZoneList[i].radius < 0

\* C16: a malformed zone is rejected with an error before the cascade runs:
\* calculateCasualties returns no CasualtyData for a zone list that holds one.
C16_MalformedZoneRejected == Malformed => ~Done

\* The ring-density branch drops a negative-radius zone without a word.
MalformedSkipped ==
    /\ Malformed /\ Done /\ Strategy = "ring"
    /\ \A i \in 1..Len(Estimates) : Estimates[i].radius > 0

\* The grid branch processes it: an estimate with the negative radius is emitted.
MalformedProcessed ==
    /\ Malformed /\ Done /\ Strategy = "grid"
    /\ \E i \in 1..Len(Estimates) : Estimates[i].radius < 0 /\ Estimates[i].area > 0

LargestRadius == ZoneList[Len(ZoneList)].radius

\* The sum of the area fields of the emitted estimates.
TotalArea == SumSeq([i \in 1..Len(Estimates) |-> Estimates[i].area])

\* C18: for a zone list with at least one positive radius, under either
\* strategy the areas of the emitted estimates add up to the area of the disc
\* of the largest radius.
C18_AreasTelescope ==
    (Done /\ LargestRadius > 0) => TotalArea = calculateArea(LargestRadius)

\* Three rings of positive area were emitted by the grid strategy.
C18_Witness ==
    /\ Done /\ Strategy = "grid"
    /\ Len(Estimates) >= 3
    /\ Cardinality({ i \in 1..Len(Estimates) : Estimates[i].area > 0 }) >= 3

\* Three rings of positive area were emitted by the ring-density strategy.
RingAreasWitness ==
    /\ Done /\ Strategy = "ring"
    /\ Cardinality({ i \in 1..Len(Estimates) : Estimates[i].area > 0 }) >= 3

\* A call with one more, larger zone has been made after the first call.
Appended == again # NoResult /\ again[1].appended # <<>>

\* The estimates of the call with the appended zone.
AppendedEstimates == again[1].data.estimates

\* Every estimate of the first call, the appended zone's own apart, is among
\* the estimates of the call with the appended zone.
ExistingEstimatesKept ==
    \A i \in 1..Len(Estimates) :
        Estimates[i].zone # again[1].appended[1]
            => \E j \in 1..Len(AppendedEstimates) : AppendedEstimates[j] = Estimates[i]

\* The totals of people affected and of fatalities have not decreased.
TotalsNotDecreased ==
    /\ again[1].data.totals.populationAffected >= Data.totals.populationAffected
    /\ again[1].data.totals.fatalities >= Data.totals.fatalities

\* C19: for a fixed density or grid, appending a zone whose radius is larger
\* than every existing zone's leaves the estimate of every existing zone
\* unchanged, and the totals of people affected and of fatalities do not decrease.
C19_AppendingKeepsEstimates ==
    Appended => (ExistingEstimatesKept /\ TotalsNotDecreased)

\* What holds of the ring-density strategy.
AppendingKeepsRingEstimates ==
    (Appended /\ Strategy = "ring") => (ExistingEstimatesKept /\ TotalsNotDecreased)

\* What holds of the grid strategy when no cell is centred on the blast centre.
AppendingKeepsGridEstimates ==
    (Appended /\ Strategy = "grid"
       /\ calculatePopulationInCircle(blastCenter[1], 0, populationData.populationGrid[1]) = 0)
        => (ExistingEstimatesKept /\ TotalsNotDecreased)

\* The estimates are kept although a total decreases.
KeptButDecreased == Appended /\ ExistingEstimatesKept /\ ~TotalsNotDecreased

\* An existing zone's estimate differs after the appending.
ExistingEstimateChanged == Appended /\ ~ExistingEstimatesKept

\* C20: in every CasualtyData returned, totals.populationAffected,
\* totals.fatalities and totals.injuries are the sums over the emitted estimates
\* of populationAffected, of fatalities and of severe + moderate + light.
C20_TotalsAreSums ==
    Done =>
        /\ Data.totals.populationAffected
              = SumSeq([i \in 1..Len(Estimates) |-> Estimates[i].populationAffected])
        /\ Data.totals.fatalities
              = SumSeq([i \in 1..Len(Estimates) |-> Estimates[i].fatalities])
        /\ Data.totals.injuries
              = SumSeq([i \in 1..Len(Estimates) |->
                          Estimates[i].injuries.severe + Estimates[i].injuries.moderate
                            + Estimates[i].injuries.light])

\* Several estimates with fatalities and with injuries of more than one grade.
C20_Witness ==
    /\ Done
    /\ Len(Estimates) >= 3
    /\ Data.totals.fatalities > 0
    /\ \E i \in 1..Len(Estimates) :
          Estimates[i].injuries.severe > 0 /\ Estimates[i].injuries.moderate > 0
    /\ \E i \in 1..Len(Estimates) : \E j \in 1..Len(Estimates) :
          i # j /\ Estimates[i].populationAffected > 0 /\ Estimates[j].populationAffected > 0

\* The names of the zones built from the given entries of the zone table.
NamesAt(indices) == { UnsortedZones(blastEffects)[k].name : k \in indices }

\* Zones by the effect their radius is taken from: blastEffects.overpressure,
\* blastEffects.thermal, blastEffects.radiation.
OverpressureZones == NamesAt({2, 3, 6, 9})
ThermalZones == NamesAt({5, 8, 10})
RadiationZones == NamesAt({4, 7})

\* The burden categories estimate e is counted in.
CategoriesOf(e) == { marker \in {"psi", "degree", "rem"} : ZoneIncludes(e.zone, marker) }

\* C21: each emitted estimate is counted in at most one of severeTrauma, burns
\* and radiationSickness: overpressure zones add their severe injuries to
\* severeTrauma, thermal zones severe + moderate to burns, radiation zones
\* severe + moderate to radiationSickness, and the Fireball adds to none.
C21_MedicalBurdenByZoneKind ==
    Done =>
        /\ \A i \in 1..Len(Estimates) :
              /\ Cardinality(CategoriesOf(Estimates[i])) <= 1
              /\ Estimates[i].zone = "Fireball" => CategoriesOf(Estimates[i]) = {}
        /\ Data.medicalBurden.severeTrauma
              = SumSeq([i \in 1..Len(Estimates) |->
                          IF Estimates[i].zone \in OverpressureZones
                          THEN Estimates[i].injuries.severe ELSE 0])
        /\ Data.medicalBurden.burns
              = SumSeq([i \in 1..Len(Estimates) |->
                          IF Estimates[i].zone \in ThermalZones
                          THEN Estimates[i].injuries.severe + Estimates[i].injuries.moderate
                          ELSE 0])
        /\ Data.medicalBurden.radiationSickness
              = SumSeq([i \in 1..Len(Estimates) |->
                          IF Estimates[i].zone \in RadiationZones
                          THEN Estimates[i].injuries.severe + Estimates[i].injuries.moderate
                          ELSE 0])

\* All three categories are fed, and a Fireball estimate with injured people is
\* among the estimates.
C21_Witness ==
    /\ Done
    /\ Data.medicalBurden.severeTrauma > 0
    /\ Data.medicalBurden.burns > 0
    /\ Data.medicalBurden.radiationSickness > 0
    /\ \E i \in 1..Len(Estimates) :
          Estimates[i].zone = "Fireball" /\ Estimates[i].injuries.severe > 0

\* C22: the urbanDensityFactor of every PopulationData returned by
\* estimatePopulationDensity lies in [0.5, 0.9] (in hundredths: 50..90).
C22_UrbanFactorInRange ==
    \A p \in Calls :
        calls[p].popData # <<>> =>
            /\ calls[p].popData[1].urbanDensityFactor >= 50
            /\ calls[p].popData[1].urbanDensityFactor <= 90

\* What the code keeps: 0.5 + 0.4 * centerFactor with centerFactor in [1, 1.5].
UrbanFactorAboveNineTenths ==
    \A p \in Calls :
        calls[p].popData # <<>> =>
            /\ calls[p].popData[1].urbanDensityFactor >= 90
            /\ calls[p].popData[1].urbanDensityFactor <= 110

\* The text is the tenth nearest to num / unit, followed by the suffix.
NearestTenth(num, unit, suffix, text) ==
    \E whole \in {num \div unit, num \div unit + 1}, digit \in 0..9 :
        /\ 2 * Abs((10 * whole + digit) * (unit \div 10) - num) <= unit \div 10
        /\ text = ToString(whole) \o "." \o ToString(digit) \o suffix

\* C23: formatCasualties renders a count of one million or more as the count
\* in millions with one decimal and "M", a count of one thousand or more as
\* the count in thousands with one decimal and "K", and a smaller count as the
\* plain number: 1500000 is "1.5M", 2500 is "2.5K", 42 is "42".
C23_FormatByMagnitude ==
    display # NoResult =>
        LET num == display[1].num
            text == display[1].text
        IN  /\ num >= 1000000 => NearestTenth(num, 1000000, "M", text)
            /\ (num >= 1000 /\ num < 1000000) => NearestTenth(num, 1000, "K", text)
            /\ num < 1000 => text = ToString(num)
            /\ num = 1500000 => text = "1.5M"
            /\ num = 2500 => text = "2.5K"
            /\ num = 42 => text = "42"

\* A count just under one million, shown in thousands.
C23_Witness ==
    /\ display # NoResult
    /\ display[1].num = 999950
    /\ display[1].text = "1000.0K"

\* C24: in the grid path the injuries of every zone come from the survivors of
\* the cascade, max(0, ringPopulation - cumulativeFatalities) - zoneFatalities,
\* as in the ring-density path.
C24_GridInjuriesFromCascadeSurvivors ==
    (Done /\ Strategy = "grid") =>
        \A i \in 1..Len(Estimates) :
            \E j \in 1..Len(Steps) :
                /\ Steps[j].radius = Estimates[i].radius
                /\ Steps[j].ringPopulation = Estimates[i].populationAffected
                /\ Steps[j].fatalities = Estimates[i].fatalities
                /\ Estimates[i].injuries
                     = InjuriesOf(Steps[j].survivingPopulation - Steps[j].fatalities,
                                  ZoneList[i].injuries)

\* What the grid path does: the survivors are the ring population less the
\* zone's fatalities, the fatalities of the zones inside it not deducted.
GridInjuriesFromRingPopulation ==
    (Done /\ Strategy = "grid") =>
        \A i \in 1..Len(Estimates) :
            Estimates[i].injuries
              = InjuriesOf(Estimates[i].populationAffected - Estimates[i].fatalities,
                           ZoneList[i].injuries)

\* The ring-density path takes the injuries from the survivors of the cascade.
RingInjuriesFromCascadeSurvivors ==
    (Done /\ Strategy = "ring") =>
        \A i \in 1..Len(Estimates) :
            \E k \in 1..Len(ZoneList) :
                /\ ZoneList[k].name = Estimates[i].zone
                /\ Estimates[i].injuries
                     = InjuriesOf(Steps[i].survivingPopulation - Steps[i].fatalities,
                                  ZoneList[k].injuries)

\* The radius of the estimate emitted before estimate i, or 0.
EmittedBefore(i) == IF i > 1 THEN Estimates[i - 1].radius ELSE 0

RECURSIVE FatalitiesBefore(_)
FatalitiesBefore(i) == IF i <= 1 THEN 0 ELSE FatalitiesBefore(i - 1) + Estimates[i - 1].fatalities

\* The radii of the zone list that are positive.
PositiveRadii == { ZoneList[k].radius : k \in 1..Len(ZoneList) } \ {0}

\* C25: in the ring-density strategy a zone of radius zero or of a radius not
\* above previousRadius leaves previousRadius, cumulativeFatalities and the
\* estimates as they were: every estimate has a radius above the one emitted
\* before it and a positive ring area, its ring reaches from the radius emitted
\* before it, and its cascade starts from the fatalities emitted before it;
\* one estimate is emitted per distinct positive radius.
C25_SkippedZoneLeavesCascade ==
    (Done /\ Strategy = "ring") =>
        /\ Len(Estimates) = Cardinality(PositiveRadii)
        /\ Len(Steps) = Len(Estimates)
        /\ \A i \in 1..Len(Estimates) :
              /\ Estimates[i].radius > EmittedBefore(i)
              /\ Estimates[i].radius > 0
              /\ Estimates[i].area > 0
              /\ Estimates[i].area
                   = calculateArea(Estimates[i].radius) - calculateArea(EmittedBefore(i))
              /\ Estimates[i].populationAffected
                   = calculateRingPopulation(EmittedBefore(i), Estimates[i].radius,
                                             populationData.populationDensity,
                                             populationData.urbanDensityFactor)
              /\ Steps[i].cumulativeBefore = FatalitiesBefore(i)

\* A ring-density run over a list with a zone of radius zero and two zones of
\* equal radius, the second visited after an estimate with fatalities.
C25_Witness ==
    /\ Done
    /\ Strategy = "ring"
    /\ ZoneList[1].radius = 0
    /\ Len(Estimates) >= 2
    /\ Estimates[1].fatalities > 0
    /\ \E k \in 3..Len(ZoneList) :
          /\ ZoneList[k].radius = ZoneList[k - 1].radius
          /\ ZoneList[k].radius > Estimates[1].radius

\* Call p found, when it started, an entry under its key aged 5 minutes or more.
FoundExpired(p) ==
    /\ calls[p].pc # "idle"
    /\ calls[p].cached # NoEntry
    /\ calls[p].started - calls[p].cached[1].timestamp >= CACHE_DURATION

\* C26: an apiCache entry aged 5 minutes or more is not returned: the call
\* behaves as a miss and issues the network request, and when the request
\* succeeds the entry is overwritten with the new grid and the new timestamp.
C26_ExpiredEntryRefetched ==
    \A p \in Calls :
        FoundExpired(p) =>
            /\ calls[p].requests = 1
            /\ calls[p].feed # "hit"
            /\ (calls[p].pc = "osmDone" /\ calls[p].feed = "ok") =>
                  /\ apiCache[KeyOf(p)]
                       = Some([data |-> calls[p].osmData[1], timestamp |-> now])
                  /\ now > calls[p].cached[1].timestamp
            /\ (Returned(p) /\ calls[p].feed = "ok") =>
                  calls[p].populationGrid = calls[p].osmData
            /\ (Returned(p) /\ calls[p].feed \notin {"ok", "none"}) => calls[p].synthetic

\* A call that found an entry exactly 5 minutes old has just fetched a grid
\* that differs from the entry's.
C26_Witness ==
    \E p \in Calls :
        /\ FoundExpired(p)
        /\ calls[p].started - calls[p].cached[1].timestamp = CACHE_DURATION
        /\ calls[p].pc = "osmDone"
        /\ calls[p].feed = "ok"
        /\ calls[p].osmData[1] # calls[p].cached[1].data

\* Every cell of the grid is non-negative.
CellsNonNegative(grid) ==
    \A r \in 1..Len(grid.data) : \A c \in 1..Len(grid.data[r]) : grid.data[r][c] >= 0

\* C27: every cell of every PopulationGrid that fetchRealPopulationData returns
\* is non-negative, whatever buildings and building:levels tags the payload holds.
C27_GridCellsNonNegative ==
    \A p \in Calls :
        (Returned(p) /\ calls[p].populationGrid # Null) =>
            CellsNonNegative(calls[p].populationGrid[1])

\* The part that holds: the cells of the synthetic grid are non-negative.
SyntheticCellsNonNegative ==
    \A p \in Calls :
        (Returned(p) /\ calls[p].synthetic) => CellsNonNegative(calls[p].populationGrid[1])

\* C28: for every PopulationGrid returned by either source the resolution
\* times the number of cells per side is the side of the square of the request,
\* 2 * radiusKm * 1000 metres.
C28_ResolutionSpansDiameter ==
    \A p \in Calls :
        (Returned(p) /\ calls[p].populationGrid # Null) =>
            calls[p].populationGrid[1].resolution * Len(calls[p].populationGrid[1].data)
              = 2 * maxRadiusKm * M_PER_KM

\* What the code keeps: the synthetic grid spans the diameter, the grid built
\* from the building feed only the radius.
ResolutionBySource ==
    \A p \in Calls :
        (Returned(p) /\ calls[p].populationGrid # Null) =>
            calls[p].populationGrid[1].resolution * Len(calls[p].populationGrid[1].data)
              = IF calls[p].synthetic THEN 2 * maxRadiusKm * M_PER_KM
                ELSE maxRadiusKm * M_PER_KM

\* Every cell of the synthetic grid of call p holds at most perKm2 people per
\* km2 of its area, (2 * radiusKm / gridSize)^2, up to the rounding of the cell.
SyntheticCellsWithin(p, perKm2) ==
    LET grid == calls[p].populationGrid[1]
        gridSize == Len(grid.data)
    IN  \A r \in 1..gridSize : \A c \in 1..gridSize :
            2 * grid.data[r][c] * gridSize * gridSize
              <= 2 * perKm2 * (2 * maxRadiusKm) * (2 * maxRadiusKm) + gridSize * gridSize

\* C29: no cell of the synthetic fallback grid holds more than 10,000 people
\* per km2 of cell area, whatever the noise.
C29_SyntheticCellsCapped ==
    \A p \in Calls :
        (Returned(p) /\ calls[p].synthetic) => SyntheticCellsWithin(p, 10000)

\* What the code keeps: with the noise on top of the gradient the cells stay
\* within 11,500 people per km2.
SyntheticCellsWithinNoise ==
    \A p \in Calls :
        (Returned(p) /\ calls[p].synthetic) => SyntheticCellsWithin(p, 11500)

\* The people estimate e counts as killed or injured.
Casualties(e) == e.fatalities + e.injuries.severe + e.injuries.moderate + e.injuries.light

\* C30: no estimate of either strategy counts more killed and injured people
\* than its populationAffected.
C30_CasualtiesWithinPopulation ==
    Done => \A i \in 1..Len(Estimates) : Casualties(Estimates[i]) <= Estimates[i].populationAffected

\* What the code keeps: the three injury counts are rounded one by one, so an
\* estimate counts at most one person more than its populationAffected.
CasualtiesWithinPopulationPlusOne ==
    Done => \A i \in 1..Len(Estimates) :
                Casualties(Estimates[i]) <= Estimates[i].populationAffected + 1

====
